---- MODULE Spec2Model ----
(***************************************************************************)
(* A model of card_deck/assets.py: the Suits and Faces enumerations, the   *)
(* Card value type with its typeable encoding and comparisons, the Pile    *)
(* container and the Deck; and of the constructors, append and deal of the *)
(* earlier revision cards.py (definitions named cards_...).                *)
(*                                                                         *)
(* Python strings are sequences of one-character strings.  A Python list   *)
(* is an object on a heap; a Pile holds a reference to its list.  The      *)
(* outcome of a call is a record: the exception it raised ("none" when it  *)
(* returned) and what it returned.                                         *)
(***************************************************************************)
EXTENDS Integers, Sequences, FiniteSets

VARIABLES heap, piles, call

vars == <<heap, piles, call>>

(***************************************************************************)
(* Bounds of the model                                                     *)
(***************************************************************************)
MaxNameLen == 4     \* longest string handed to get_from_typeable_name
MaxLen == 3         \* longest list a Pile is constructed from
MaxSets == 3        \* largest num_sets handed to deal on a small pile
MaxRounds == 3      \* largest num_cards handed to deal on a small pile
ShuffleWindow == 2  \* random.shuffle permutes at most this many top cards
MaxPiles == 4       \* most Pile objects alive at once

(***************************************************************************)
(* Suits and Faces: enum members are modelled by their values              *)
(***************************************************************************)
DIAMONDS == 1
CLUBS == 2
HEARTS == 3
SPADES == 4

ACE == 1
TWO == 2
THREE == 3
FOUR == 4
FIVE == 5
SIX == 6
SEVEN == 7
EIGHT == 8
NINE == 9
TEN == 10
JACK == 11
QUEEN == 12
KING == 13

\* iteration order of the enum classes is declaration order
Suits == <<DIAMONDS, CLUBS, HEARTS, SPADES>>
Faces == <<ACE, TWO, THREE, FOUR, FIVE, SIX, SEVEN, EIGHT, NINE, TEN,
           JACK, QUEEN, KING>>

SuitSet == {Suits[i] : i \in 1..Len(Suits)}
FaceSet == {Faces[i] : i \in 1..Len(Faces)}

\* s.name for s in Suits
SuitName(s) ==
    CASE s = DIAMONDS -> <<"D", "I", "A", "M", "O", "N", "D", "S">>
      [] s = CLUBS    -> <<"C", "L", "U", "B", "S">>
      [] s = HEARTS   -> <<"H", "E", "A", "R", "T", "S">>
      [] s = SPADES   -> <<"S", "P", "A", "D", "E", "S">>

\* position (from 1) of an enum member in the iteration of its class
IndexIn(seq, x) == CHOOSE i \in 1..Len(seq) : seq[i] = x

(***************************************************************************)
(* Outcomes of calls                                                       *)
(***************************************************************************)
NoCard == [face |-> 0, suit |-> 0]

Card(face, suit) == [face |-> face, suit |-> suit]

Cards == {Card(f, s) : f \in FaceSet, s \in SuitSet}

\* a comparison returned the boolean v
RetBool(v) == [exc |-> "none", val |-> v]

\* a comparison raised
RaiseBool(e) == [exc |-> e, val |-> FALSE]

(***************************************************************************)
(* Card comparisons                                                        *)
(***************************************************************************)
\* Suits and Faces derive from enum.Enum, which defines no ordering: a < b
\* on two members of the same class raises TypeError
Enum__lt__(a, b) == RaiseBool("TypeError")

\* Enum members are singletons: == is identity
Enum__eq__(a, b) == a = b

Card__eq__(self, other) ==
    Enum__eq__(self.face, other.face) /\ Enum__eq__(self.suit, other.suit)

Card__lt__(self, other) ==
    LET byFace == Enum__lt__(self.face, other.face)
    IN  IF byFace.exc # "none" THEN byFace
        ELSE IF byFace.val THEN RetBool(TRUE)
        ELSE Enum__lt__(self.suit, other.suit)

\* functools.total_ordering derives > from __lt__: not (a < b) and a != b
Card__gt__(self, other) ==
    LET lt == Card__lt__(self, other)
    IN  IF lt.exc # "none" THEN lt
        ELSE RetBool(~lt.val /\ ~Card__eq__(self, other))

(***************************************************************************)
(* The typeable encoding                                                   *)
(***************************************************************************)
\* "A,2,3,4,5,6,7,8,9,10,J,Q,K".split(",")
FaceTokens == << <<"A">>, <<"2">>, <<"3">>, <<"4">>, <<"5">>, <<"6">>, <<"7">>,
                 <<"8">>, <<"9">>, <<"1", "0">>, <<"J">>, <<"Q">>, <<"K">> >>

LOOKUP_FACE_CHAR(f) == FaceTokens[IndexIn(Faces, f)]

LOOKUP_SUIT_LETTER(s) == <<SuitName(s)[1]>>

\* the inverted dictionaries: their keys, and the lookup by key
FaceTypeableKeys == {LOOKUP_FACE_CHAR(f) : f \in FaceSet}

SuitTypeableKeys == {LOOKUP_SUIT_LETTER(s) : s \in SuitSet}

LOOKUP_FACE_TYPEABLE(k) == CHOOSE f \in FaceSet : LOOKUP_FACE_CHAR(f) = k

LOOKUP_SUIT_TYPEABLE(k) == CHOOSE s \in SuitSet : LOOKUP_SUIT_LETTER(s) = k

\* a variant of Upper: the suit character is not upper-cased
Upper_omitted(c) == c

\* str.upper on one character of the alphabet of the model
Upper(c) ==
    CASE c = "a" -> "A"
      [] c = "b" -> "B"
      [] c = "c" -> "C"
      [] c = "d" -> "D"
      [] c = "h" -> "H"
      [] c = "s" -> "S"
      [] OTHER   -> c

\* a call returned the card c / returned None / raised e
RetCard(c) == [exc |-> "none", kind |-> "Card", card |-> c]

RetNone == [exc |-> "none", kind |-> "None", card |-> NoCard]

Raise(e) == [exc |-> e, kind |-> "Raise", card |-> NoCard]

get_from_typeable_name(typeable_name) ==
    IF Len(typeable_name) = 2
    THEN LET face_char == <<typeable_name[1]>>
             suit_char == <<Upper(typeable_name[2])>>
         IN  IF face_char \notin FaceTypeableKeys THEN Raise("CardError")
             ELSE IF suit_char \notin SuitTypeableKeys THEN Raise("CardError")
             ELSE RetCard(Card(LOOKUP_FACE_TYPEABLE(face_char),
                               LOOKUP_SUIT_TYPEABLE(suit_char)))
    ELSE RetNone

get_typeable_name(self) ==
    LOOKUP_FACE_CHAR(self.face) \o LOOKUP_SUIT_LETTER(self.suit)

(***************************************************************************)
(* Python lists                                                            *)
(***************************************************************************)
\* item in cards: some element compares equal (Card.__eq__)
ListContains(cards, item) == \E i \in 1..Len(cards) : Card__eq__(cards[i], item)

\* a variant of ListRemove: the last equal element is deleted
ListRemove_last(cards, card) ==
    LET i == CHOOSE k \in 1..Len(cards) :
                 /\ Card__eq__(cards[k], card)
                 /\ \A h \in (k + 1)..Len(cards) : ~Card__eq__(cards[h], card)
    IN  SubSeq(cards, 1, i - 1) \o SubSeq(cards, i + 1, Len(cards))

\* cards.remove(card), card being in cards: deletes the first equal element
ListRemove(cards, card) ==
    LET i == CHOOSE k \in 1..Len(cards) :
                 /\ Card__eq__(cards[k], card)
                 /\ \A h \in 1..(k - 1) : ~Card__eq__(cards[h], card)
    IN  SubSeq(cards, 1, i - 1) \o SubSeq(cards, i + 1, Len(cards))

\* cards.insert(position, card): a negative position counts from the end, and
\* a position beyond either end is clamped to that end
ListInsert(cards, position, card) ==
    LET fromEnd == IF position < 0 THEN position + Len(cards) ELSE position
        at == IF fromEnd < 0 THEN 0
              ELSE IF fromEnd > Len(cards) THEN Len(cards)
              ELSE fromEnd
    IN  SubSeq(cards, 1, at) \o <<card>> \o SubSeq(cards, at + 1, Len(cards))

\* cards.count(card)
ListCount(cards, card) ==
    Cardinality({i \in 1..Len(cards) : Card__eq__(cards[i], card)})

(***************************************************************************)
(* Pile methods, as functions of the list the pile refers to               *)
(***************************************************************************)
Pile_size(cards) == Len(cards)

Pile_empty(cards) == Pile_size(cards) = 0

\* the outcome of a method that works on a list: the exception, the card it
\* returned (if any) and the list afterwards
Outcome(e, c, cards) == [exc |-> e, card |-> c, cards |-> cards]

\* a variant of Pile_pop: the card is taken from the bottom
Pile_pop_bottom(cards) ==
    IF Pile_empty(cards) THEN Outcome("PileError", NoCard, cards)
    ELSE Outcome("none", cards[1], SubSeq(cards, 2, Len(cards)))

Pile_pop(cards) ==
    IF Pile_empty(cards) THEN Outcome("PileError", NoCard, cards)
    ELSE Outcome("none", cards[Len(cards)], SubSeq(cards, 1, Len(cards) - 1))

Pile_remove(cards, card) ==
    IF ~ListContains(cards, card) THEN Outcome("PileError", NoCard, cards)
    ELSE Outcome("none", NoCard, ListRemove(cards, card))

\* an optional position: <<>> is None, <<k>> is the integer k
NonePos == <<>>

\* a variant of Pile_insert: without a position the card goes to the bottom
Pile_insert_bottom(cards, card, position) ==
    LET pos == IF position = NonePos THEN 0 ELSE position[1]
    IN  ListInsert(cards, pos, card)

Pile_insert(cards, card, position) ==
    LET pos == IF position = NonePos THEN Len(cards) ELSE position[1]
    IN  ListInsert(cards, pos, card)

Pile_append(cards, card) == Append(cards, card)

\* self._cards.reverse()
Pile_reverse(cards) == [k \in 1..Len(cards) |-> cards[Len(cards) + 1 - k]]

\* an optional reference to a list: <<>> is None, <<k>> is the list at
\* address k
NoneRef == <<>>

\* Pile.__init__(cards) on the heap h: the heap afterwards and the address
\* self._cards holds.  None gives a new empty list; a list is kept as it is
\* handed over, by reference
Pile__init__(h, cards) ==
    IF cards = NoneRef THEN [heap |-> Append(h, <<>>), ref |-> Len(h) + 1]
    ELSE [heap |-> h, ref |-> cards[1]]

\* cards[position]: a negative position counts from the end; outside the
\* list it raises IndexError
ListGetItem(cards, position) ==
    LET at == IF position < 0 THEN position + Len(cards) ELSE position
    IN  IF at < 0 \/ at >= Len(cards)
        THEN Outcome("IndexError", NoCard, cards)
        ELSE Outcome("none", cards[at + 1], cards)

\* peek(position=-1): return self._cards[position]
Pile_peek(cards, position) ==
    ListGetItem(cards, IF position = NonePos THEN -1 ELSE position[1])

(***************************************************************************)
(* The properties face and suit of a Card                                  *)
(***************************************************************************)
\* card.face and card.suit: the getters return the fields
Card_face(self) == self.face

Card_suit(self) == self.suit

\* the outcome of an assignment to a property: the exception it raised and
\* the card afterwards
Assigned(e, card) == [exc |-> e, card |-> card]

\* a variant of Card_face_setter: the value is stored
Card_face_setter_stores(self, value) ==
    Assigned("none", [self EXCEPT !.face = value])

\* card.face = value
Card_face_setter(self, value) == Assigned("CardError", self)

\* card.suit = value
Card_suit_setter(self, value) == Assigned("CardError", self)

(***************************************************************************)
(* The operators of Pile                                                   *)
(***************************************************************************)
\* item in pile
Pile__contains__(cards, item) == ListContains(cards, item)

\* len(pile)
Pile__len__(cards) == Len(cards)

\* the truth value of a pile: Pile defines no __bool__, so len(pile) != 0
Pile__bool__(cards) == Pile__len__(cards) # 0

\* x or y and x and y, on piles: one of the operands, chosen by the truth
\* value of x
BoolOr(x, y) == IF Pile__bool__(x) THEN x ELSE y

BoolAnd(x, y) == IF Pile__bool__(x) THEN y ELSE x

\* [item for item in self if item not in other]
Pile__sub__(cards, other) ==
    SelectSeq(cards, LAMBDA item : ~Pile__contains__(other, item))

\* a variant of Pile__and__: the cards of other that are in self
Pile__and__swapped(cards, other) ==
    SelectSeq(other, LAMBDA item : ListContains(cards, item))

\* [item for item in self._cards if item in other.cards]
Pile__and__(cards, other) ==
    SelectSeq(cards, LAMBDA item : ListContains(other, item))

\* (self or other) - (self and other)
Pile__xor__(cards, other) ==
    Pile__sub__(BoolOr(cards, other), BoolAnd(cards, other))

\* list.extend(other) changes the list in place and returns None
ListExtend(cards, other) == [cards |-> cards \o other, ret |-> NoneRef]

(***************************************************************************)
(* Pile.deal                                                               *)
(***************************************************************************)
\* the outcome of deal: the exception, the source list afterwards and the
\* lists of the piles it returned
DealOutcome(e, cards, sets) == [exc |-> e, cards |-> cards, sets |-> sets]

\* sets[j].insert(self.pop()), the pop having returned: the state of the
\* loops after it
DealStep(at) ==
    [cards |-> Pile_pop(at.cards).cards,
     sets |-> [at.sets EXCEPT ![at.j + 1] =
                  Pile_insert(@, Pile_pop(at.cards).card, NonePos)],
     i |-> at.i,
     j |-> at.j + 1]

\* the two nested loops of deal; at is the state of the loops: the source
\* list, the lists of the new piles, the round i and the set j (both from 0).
\* An IndexError of the pop is caught and ends the deal; any other exception
\* leaves deal
RECURSIVE DealLoop(_, _, _)
DealLoop(at, num_sets, num_cards) ==
    CASE at.i >= num_cards -> DealOutcome("none", at.cards, at.sets)
      [] at.i < num_cards /\ at.j >= num_sets ->
             DealLoop([at EXCEPT !.i = at.i + 1, !.j = 0], num_sets, num_cards)
      [] at.i < num_cards /\ at.j < num_sets
            /\ Pile_pop(at.cards).exc = "IndexError" ->
             DealOutcome("none", Pile_pop(at.cards).cards, at.sets)
      [] at.i < num_cards /\ at.j < num_sets
            /\ Pile_pop(at.cards).exc \notin {"none", "IndexError"} ->
             DealOutcome(Pile_pop(at.cards).exc, Pile_pop(at.cards).cards, <<>>)
      [] OTHER -> DealLoop(DealStep(at), num_sets, num_cards)

Pile_deal(cards, num_sets, num_cards) ==
    DealLoop([cards |-> cards, sets |-> [k \in 1..num_sets |-> <<>>],
              i |-> 0, j |-> 0],
             num_sets, num_cards)

(***************************************************************************)
(* Pile.shuffle and Pile.sort                                              *)
(***************************************************************************)
\* random.shuffle leaves some permutation of the list; the random source of
\* the model permutes the top ShuffleWindow cards
ShuffleOutcomes(cards) ==
    LET n == Len(cards)
        lo == IF n > ShuffleWindow THEN n - ShuffleWindow + 1 ELSE 1
        perms == {f \in [lo..n -> lo..n] :
                      \A x, y \in lo..n : f[x] = f[y] => x = y}
    IN  {[k \in 1..n |-> IF k < lo THEN cards[k] ELSE cards[f[k]]] :
             f \in perms}

\* list.sort is a stable insertion sort on Card.__lt__ for lists this short.
\* InsertAt moves the card at index k down past every card it is less than;
\* an exception of a comparison leaves the list as it is at that moment
RECURSIVE InsertAt(_, _)
InsertAt(cards, k) ==
    IF k = 1 THEN Outcome("none", NoCard, cards)
    ELSE LET lt == Card__lt__(cards[k], cards[k - 1])
         IN  IF lt.exc # "none" THEN Outcome(lt.exc, NoCard, cards)
             ELSE IF ~lt.val THEN Outcome("none", NoCard, cards)
             ELSE InsertAt([cards EXCEPT ![k] = cards[k - 1],
                                         ![k - 1] = cards[k]], k - 1)

RECURSIVE SortFrom(_, _)
SortFrom(cards, k) ==
    IF k > Len(cards) THEN Outcome("none", NoCard, cards)
    ELSE LET placed == InsertAt(cards, k)
         IN  IF placed.exc # "none" THEN placed
             ELSE SortFrom(placed.cards, k + 1)

Pile_sort(cards) == SortFrom(cards, 2)

(***************************************************************************)
(* Deck.__init__                                                           *)
(***************************************************************************)
\* for suit in Suits: for face in Faces: append Card(face, suit); at is the
\* state of the loops: the list so far and the indices of suit and face
\* a variant of DeckLoop: the loop over the faces is the outer one
RECURSIVE DeckLoop_facesOuter(_)
DeckLoop_facesOuter(at) ==
    CASE at.fi > Len(Faces) -> at.cards
      [] at.fi <= Len(Faces) /\ at.si > Len(Suits) ->
             DeckLoop_facesOuter([at EXCEPT !.fi = at.fi + 1, !.si = 1])
      [] OTHER ->
             DeckLoop_facesOuter(
                 [cards |-> Pile_append(at.cards,
                                        Card(Faces[at.fi], Suits[at.si])),
                  si |-> at.si + 1,
                  fi |-> at.fi])

RECURSIVE DeckLoop(_)
DeckLoop(at) ==
    CASE at.si > Len(Suits) -> at.cards
      [] at.si <= Len(Suits) /\ at.fi > Len(Faces) ->
             DeckLoop([at EXCEPT !.si = at.si + 1, !.fi = 1])
      [] OTHER ->
             DeckLoop([cards |-> Pile_append(at.cards,
                                             Card(Faces[at.fi], Suits[at.si])),
                       si |-> at.si,
                       fi |-> at.fi + 1])

Deck__init__ == DeckLoop([cards |-> <<>>, si |-> 1, fi |-> 1])

(***************************************************************************)
(* The revision cards.py: Pile.__init__, pop, insert, append, deal and     *)
(* Deck.__init__                                                           *)
(***************************************************************************)
\* def __init__(self, cards=[]): the default is one list object, made when
\* the function is defined; it is the first list on the heap
cards_DefaultRef == <<1>>

\* Pile.__init__(cards) on the heap h: self._cards = cards, by reference
cards_Pile__init__(h, cards) == [heap |-> h, ref |-> cards[1]]

\* pop(): return self._cards.pop(), which raises IndexError on an empty
\* list
cards_Pile_pop(cards) ==
    IF Len(cards) = 0 THEN Outcome("IndexError", NoCard, cards)
    ELSE Outcome("none", cards[Len(cards)], SubSeq(cards, 1, Len(cards) - 1))

cards_Pile_insert(cards, card, position) ==
    LET pos == IF position = NonePos THEN Len(cards) ELSE position[1]
    IN  ListInsert(cards, pos, card)

cards_Pile_append(cards, card) == Append(cards, card)

\* sets[j].insert(self.pop()), the pop having returned: the state of the
\* loops after it.  self is the address of the list of the source
cards_DealStep(at, self) ==
    LET popped == cards_Pile_pop(at.heap[self])
        taken == [at.heap EXCEPT ![self] = popped.cards]
    IN  [heap |-> [taken EXCEPT ![at.sets[at.j + 1]] =
                      cards_Pile_insert(@, popped.card, NonePos)],
         sets |-> at.sets,
         i |-> at.i,
         j |-> at.j + 1]

\* the two nested loops of deal; at is the state of the loops: the heap, the
\* addresses of the lists of the new piles, the round i and the set j (both
\* from 0).  An IndexError of the pop is caught and ends the deal
RECURSIVE cards_DealLoop(_, _, _, _)
cards_DealLoop(at, self, numSets, numCards) ==
    CASE at.i >= numCards -> at
      [] at.i < numCards /\ at.j >= numSets ->
             cards_DealLoop([at EXCEPT !.i = at.i + 1, !.j = 0],
                            self, numSets, numCards)
      [] at.i < numCards /\ at.j < numSets
            /\ cards_Pile_pop(at.heap[self]).exc = "IndexError" -> at
      [] OTHER ->
             cards_DealLoop(cards_DealStep(at, self), self, numSets, numCards)

\* deal(numSets, numCards): sets = [Pile() for n in range(numSets)], then
\* the loops
cards_Pile_deal(h, self, numSets, numCards) ==
    cards_DealLoop(
        [heap |-> h,
         sets |-> [k \in 1..numSets |->
                      cards_Pile__init__(h, cards_DefaultRef).ref],
         i |-> 0,
         j |-> 0],
        self, numSets, numCards)

\* Deck.__init__: Pile.__init__(self), then the loops append the 52 cards
\* to self._cards
cards_Deck__init__(h) ==
    LET made == cards_Pile__init__(h, cards_DefaultRef)
    IN  [heap |-> [made.heap EXCEPT ![made.ref] =
                      DeckLoop([cards |-> @, si |-> 1, fi |-> 1])],
         ref |-> made.ref]

(***************************************************************************)
(* Inputs                                                                  *)
(***************************************************************************)
\* the characters of the strings handed to get_from_typeable_name
InputChars == {"A", "a", "b", "c", "d", "h", "B", "5", "1", "0"}

\* the strings of n characters
StringsOfLen(n) == [1..n -> InputChars]

\* the cards of the lists a Pile is constructed from (those of tests.py)
PileCards == {Card(ACE, HEARTS), Card(FIVE, CLUBS), Card(SIX, HEARTS)}

\* the lists of n cards
ListsOfLen(n) == [1..n -> PileCards]

\* the (num_sets, num_cards) a whole deck is dealt with
DeckDeals == {<<3, 5>>, <<2, 26>>, <<5, 11>>, <<2, 27>>, <<1, 1>>}

\* the positions handed to peek and insert: none, and each index from below
\* -(MaxLen + 1) to above MaxLen
Positions == {NonePos} \cup {<<k>> : k \in (0 - MaxLen - 1)..(MaxLen + 1)}

\* the (num_sets, num_cards) of the deals from default-constructed piles
DefaultDeals == {<<2, 1>>, <<3, 5>>}

(***************************************************************************)
(* State                                                                   *)
(*   heap   the list objects, by address                                   *)
(*   piles  the Pile objects: piles[p] is the address of p._cards          *)
(*   call   the last call: its arguments, what the receiver held before    *)
(*          it, its outcome, and (prev) the call before it on the piles    *)
(***************************************************************************)
NoCall ==
    [op |-> "", exc |-> "none", kind |-> "", card |-> NoCard, val |-> FALSE,
     a |-> NoCard, b |-> NoCard, text |-> <<>>, p |-> 0, n |-> 0, m |-> 0,
     before |-> <<>>, sets |-> <<>>, prev |-> ""]

\* the list of pile p
CardsOf(p) == heap[piles[p]]

PileIds == 1..Len(piles)

\* a Card operation called with arguments drawn from the inputs, not yet run
Pending(op, a, b, text) ==
    [NoCall EXCEPT !.op = op, !.kind = "pending", !.a = a, !.b = b,
                   !.text = text]

InitCard ==
    /\ heap = <<>>
    /\ piles = <<>>
    /\ \/ \E op \in {"lt", "gt", "eq"}, a, b \in Cards :
              call = Pending(op, a, b, <<>>)
       \/ \E n \in 0..MaxNameLen : \E text \in StringsOfLen(n) :
              call = Pending("parse", NoCard, NoCard, text)
       \/ \E a \in Cards :
              call = Pending("parse", NoCard, NoCard, get_typeable_name(a))
       \/ \E a \in Cards : call = Pending("roundtrip", a, NoCard, <<>>)

\* the call op is pending
IsPending(op) == call.op = op /\ call.kind = "pending"

\* after p = Pile(cs), cs a list of the caller's
InitPile ==
    \E n \in 0..MaxLen : \E cs \in ListsOfLen(n) :
        /\ heap = <<cs>>
        /\ piles = <<1>>
        /\ call = [NoCall EXCEPT !.op = "Pile", !.kind = "Pile", !.p = 1]

\* no pile yet, no call yet
InitEmpty ==
    /\ heap = <<>>
    /\ piles = <<>>
    /\ call = NoCall

\* after d = Deck(): Pile.__init__ makes a new list, then the loops fill it
InitDeck ==
    /\ heap = <<Deck__init__>>
    /\ piles = <<1>>
    /\ call = [NoCall EXCEPT !.op = "Deck", !.kind = "Pile", !.p = 1]

\* after c = Card(face, suit): call.a keeps the card as constructed and
\* call.card is the card as it is now
InitAssign ==
    /\ heap = <<>>
    /\ piles = <<>>
    /\ \E face \in FaceSet, suit \in SuitSet :
           call = [NoCall EXCEPT !.op = "Card", !.kind = "Card",
                       !.a = Card(face, suit), !.card = Card(face, suit)]

\* the calls into the revision cards.py; "cards.py" is the import of the
\* module
CardsPyOps ==
    {"cards.py", "cards.Pile", "cards.Deck", "cards.append", "cards.deal"}

\* the program runs on the revision cards.py
InCardsPy == call.op \in CardsPyOps

\* after import cards: the default list of Pile.__init__ is there, and no
\* pile yet
InitCardsPy ==
    /\ heap = <<<<>>>>
    /\ piles = <<>>
    /\ call = [NoCall EXCEPT !.op = "cards.py", !.kind = "module"]

(***************************************************************************)
(* Card operations                                                         *)
(***************************************************************************)
\* call.a < call.b
Lt ==
    LET r == Card__lt__(call.a, call.b)
    IN  /\ IsPending("lt")
        /\ call' = [call EXCEPT !.exc = r.exc, !.val = r.val,
                        !.kind = IF r.exc = "none" THEN "Bool" ELSE "Raise"]
        /\ UNCHANGED <<heap, piles>>

\* call.a > call.b
Gt ==
    LET r == Card__gt__(call.a, call.b)
    IN  /\ IsPending("gt")
        /\ call' = [call EXCEPT !.exc = r.exc, !.val = r.val,
                        !.kind = IF r.exc = "none" THEN "Bool" ELSE "Raise"]
        /\ UNCHANGED <<heap, piles>>

\* call.a == call.b
Eq ==
    /\ IsPending("eq")
    /\ call' = [call EXCEPT !.val = Card__eq__(call.a, call.b),
                    !.kind = "Bool"]
    /\ UNCHANGED <<heap, piles>>

\* Card.get_from_typeable_name(call.text)
Parse ==
    LET r == get_from_typeable_name(call.text)
    IN  /\ IsPending("parse")
        /\ call' = [call EXCEPT !.exc = r.exc, !.kind = r.kind,
                        !.card = r.card]
        /\ UNCHANGED <<heap, piles>>

\* Card.get_from_typeable_name(call.a.get_typeable_name())
RoundTrip ==
    LET text == get_typeable_name(call.a)
        r == get_from_typeable_name(text)
    IN  /\ IsPending("roundtrip")
        /\ call' = [call EXCEPT !.text = text, !.exc = r.exc,
                        !.kind = r.kind, !.card = r.card]
        /\ UNCHANGED <<heap, piles>>

\* c.face = value, on the card of the last call; call.n is the value
SetFace(value) ==
    LET r == Card_face_setter(call.card, value)
    IN  /\ call' = [call EXCEPT !.op = "set_face", !.prev = call.op,
                        !.n = value, !.exc = r.exc, !.card = r.card,
                        !.kind = IF r.exc = "none" THEN "None" ELSE "Raise"]
        /\ UNCHANGED <<heap, piles>>

\* c.suit = value, on the card of the last call; call.n is the value
SetSuit(value) ==
    LET r == Card_suit_setter(call.card, value)
    IN  /\ call' = [call EXCEPT !.op = "set_suit", !.prev = call.op,
                        !.n = value, !.exc = r.exc, !.card = r.card,
                        !.kind = IF r.exc = "none" THEN "None" ELSE "Raise"]
        /\ UNCHANGED <<heap, piles>>

(***************************************************************************)
(* Pile operations                                                         *)
(***************************************************************************)
\* Deck(): Pile.__init__ makes a new list, then the loops fill it; the model
\* keeps at most MaxPiles piles
NewDeck ==
    /\ Len(piles) < MaxPiles
    /\ heap' = Append(heap, Deck__init__)
    /\ piles' = Append(piles, Len(heap) + 1)
    /\ call' = [NoCall EXCEPT !.op = "Deck", !.prev = call.op,
                    !.kind = "Pile", !.p = Len(piles) + 1]

\* p.pop()
Pop(p) ==
    LET r == Pile_pop(CardsOf(p))
    IN  /\ heap' = [heap EXCEPT ![piles[p]] = r.cards]
        /\ call' = [NoCall EXCEPT !.op = "pop", !.prev = call.op, !.p = p,
                        !.before = CardsOf(p), !.exc = r.exc, !.card = r.card,
                        !.kind = IF r.exc = "none" THEN "Card" ELSE "Raise"]
        /\ UNCHANGED piles

\* p.remove(card)
Remove(p, card) ==
    LET r == Pile_remove(CardsOf(p), card)
    IN  /\ heap' = [heap EXCEPT ![piles[p]] = r.cards]
        /\ call' = [NoCall EXCEPT !.op = "remove", !.prev = call.op, !.p = p, !.a = card,
                        !.before = CardsOf(p), !.exc = r.exc,
                        !.kind = IF r.exc = "none" THEN "None" ELSE "Raise"]
        /\ UNCHANGED piles

\* p.append(card); the model keeps lists within MaxLen
AppendCard(p, card) ==
    /\ Len(CardsOf(p)) < MaxLen
    /\ heap' = [heap EXCEPT ![piles[p]] = Pile_append(CardsOf(p), card)]
    /\ call' = [NoCall EXCEPT !.op = "append", !.prev = call.op, !.p = p, !.a = card,
                    !.before = CardsOf(p), !.kind = "None"]
    /\ UNCHANGED piles

\* p.deal(num_sets, num_cards): the piles it returns are new Pile objects,
\* each with a new list; when it raises, they are lost.  The model keeps at
\* most MaxPiles piles
Deal(p, num_sets, num_cards) ==
    \E r \in {Pile_deal(CardsOf(p), num_sets, num_cards)} :
        LET made == IF r.exc = "none" THEN num_sets ELSE 0
        IN  /\ Len(piles) + made <= MaxPiles
            /\ heap' = [heap EXCEPT ![piles[p]] = r.cards] \o r.sets
            /\ piles' = piles \o [k \in 1..made |-> Len(heap) + k]
            /\ call' = [NoCall EXCEPT !.op = "deal", !.prev = call.op, !.p = p, !.n = num_sets,
                            !.m = num_cards, !.before = CardsOf(p),
                            !.exc = r.exc,
                            !.sets = [k \in 1..made |-> Len(piles) + k],
                            !.kind = IF r.exc = "none" THEN "Piles"
                                     ELSE "Raise"]

\* p.shuffle()
Shuffle(p) ==
    \E shuffled \in ShuffleOutcomes(CardsOf(p)) :
        /\ heap' = [heap EXCEPT ![piles[p]] = shuffled]
        /\ call' = [NoCall EXCEPT !.op = "shuffle", !.prev = call.op, !.p = p,
                        !.before = CardsOf(p), !.kind = "None"]
        /\ UNCHANGED piles

\* p.sort()
Sort(p) ==
    LET r == Pile_sort(CardsOf(p))
    IN  /\ heap' = [heap EXCEPT ![piles[p]] = r.cards]
        /\ call' = [NoCall EXCEPT !.op = "sort", !.prev = call.op, !.p = p,
                        !.before = CardsOf(p), !.exc = r.exc,
                        !.kind = IF r.exc = "none" THEN "None" ELSE "Raise"]
        /\ UNCHANGED piles

\* p.insert(card, position); call.m tells whether a position was given and
\* call.n which.  The model keeps lists within MaxLen
Insert(p, card, position) ==
    /\ Len(CardsOf(p)) < MaxLen
    /\ heap' = [heap EXCEPT
                   ![piles[p]] = Pile_insert(CardsOf(p), card, position)]
    /\ call' = [NoCall EXCEPT !.op = "insert", !.prev = call.op, !.p = p,
                    !.a = card, !.m = Len(position),
                    !.n = IF position = NonePos THEN 0 ELSE position[1],
                    !.before = CardsOf(p), !.kind = "None"]
    /\ UNCHANGED piles

\* p.reverse()
Reverse(p) ==
    /\ heap' = [heap EXCEPT ![piles[p]] = Pile_reverse(CardsOf(p))]
    /\ call' = [NoCall EXCEPT !.op = "reverse", !.prev = call.op, !.p = p,
                    !.before = CardsOf(p), !.kind = "None"]
    /\ UNCHANGED piles

\* p.copy(): Pile(self._cards); call.sets names the pile returned.  The
\* model keeps at most MaxPiles piles
Copy(p) ==
    LET made == Pile__init__(heap, <<piles[p]>>)
    IN  /\ Len(piles) < MaxPiles
        /\ heap' = made.heap
        /\ piles' = Append(piles, made.ref)
        /\ call' = [NoCall EXCEPT !.op = "copy", !.prev = call.op, !.p = p,
                        !.before = CardsOf(p), !.kind = "Pile",
                        !.sets = <<Len(piles) + 1>>]

\* the pile a binary operator returns, Pile(made) with made a list just
\* built, and the record of the call: call.p is self, call.n is other and
\* call.sets names the pile returned
Returned(op, p, q, made) ==
    LET new == Pile__init__(Append(heap, made), <<Len(heap) + 1>>)
    IN  /\ heap' = new.heap
        /\ piles' = Append(piles, new.ref)
        /\ call' = [NoCall EXCEPT !.op = op, !.prev = call.op, !.p = p,
                        !.n = q, !.before = CardsOf(p), !.kind = "Pile",
                        !.sets = <<Len(piles) + 1>>]

\* p - q
Sub(p, q) == Returned("sub", p, q, Pile__sub__(CardsOf(p), CardsOf(q)))

\* p & q
And(p, q) == Returned("and", p, q, Pile__and__(CardsOf(p), CardsOf(q)))

\* p ^ q
Xor(p, q) == Returned("xor", p, q, Pile__xor__(CardsOf(p), CardsOf(q)))

\* p + q: Pile(self._cards.extend(other.cards)); the list of p is extended
\* in place, and the pile returned is made from what extend returns
Add(p, q) ==
    LET extended == ListExtend(CardsOf(p), CardsOf(q))
        new == Pile__init__([heap EXCEPT ![piles[p]] = extended.cards],
                            extended.ret)
    IN  /\ heap' = new.heap
        /\ piles' = Append(piles, new.ref)
        /\ call' = [NoCall EXCEPT !.op = "add", !.prev = call.op, !.p = p,
                        !.n = q, !.before = CardsOf(p), !.kind = "Pile",
                        !.sets = <<Len(piles) + 1>>]

\* p.peek(position); call.m tells whether a position was given and call.n
\* which
Peek(p, position) ==
    LET r == Pile_peek(CardsOf(p), position)
    IN  /\ heap' = [heap EXCEPT ![piles[p]] = r.cards]
        /\ call' = [NoCall EXCEPT !.op = "peek", !.prev = call.op, !.p = p,
                        !.m = Len(position),
                        !.n = IF position = NonePos THEN 0 ELSE position[1],
                        !.before = CardsOf(p), !.exc = r.exc, !.card = r.card,
                        !.kind = IF r.exc = "none" THEN "Card" ELSE "Raise"]
        /\ UNCHANGED piles

\* Pile(); the model keeps at most MaxPiles piles
NewPile ==
    LET made == Pile__init__(heap, NoneRef)
    IN  /\ Len(piles) < MaxPiles
        /\ heap' = made.heap
        /\ piles' = Append(piles, made.ref)
        /\ call' = [NoCall EXCEPT !.op = "Pile()", !.prev = call.op,
                        !.kind = "Pile", !.p = Len(piles) + 1]

\* cards.py, Pile(); the model keeps at most MaxPiles piles
cards_NewPile ==
    LET made == cards_Pile__init__(heap, cards_DefaultRef)
    IN  /\ InCardsPy
        /\ Len(piles) < MaxPiles
        /\ heap' = made.heap
        /\ piles' = Append(piles, made.ref)
        /\ call' = [NoCall EXCEPT !.op = "cards.Pile", !.prev = call.op,
                        !.kind = "Pile", !.p = Len(piles) + 1]

\* cards.py, Deck(); the model keeps at most MaxPiles piles
cards_NewDeck ==
    LET made == cards_Deck__init__(heap)
    IN  /\ InCardsPy
        /\ Len(piles) < MaxPiles
        /\ heap' = made.heap
        /\ piles' = Append(piles, made.ref)
        /\ call' = [NoCall EXCEPT !.op = "cards.Deck", !.prev = call.op,
                        !.kind = "Pile", !.p = Len(piles) + 1]

\* cards.py, p.append(card); the model keeps the lists appended to within
\* MaxLen
cards_Append(p, card) ==
    /\ InCardsPy
    /\ Len(CardsOf(p)) < MaxLen
    /\ heap' = [heap EXCEPT ![piles[p]] = cards_Pile_append(CardsOf(p), card)]
    /\ call' = [NoCall EXCEPT !.op = "cards.append", !.prev = call.op,
                    !.p = p, !.a = card, !.before = CardsOf(p),
                    !.kind = "None"]
    /\ UNCHANGED piles

\* cards.py, p.deal(numSets, numCards); call.sets names the piles returned.
\* The model keeps at most MaxPiles piles
cards_Deal(p, numSets, numCards) ==
    \E r \in {cards_Pile_deal(heap, piles[p], numSets, numCards)} :
        /\ InCardsPy
        /\ Len(piles) + numSets <= MaxPiles
        /\ heap' = r.heap
        /\ piles' = piles \o r.sets
        /\ call' = [NoCall EXCEPT !.op = "cards.deal", !.prev = call.op,
                        !.p = p, !.n = numSets, !.m = numCards,
                        !.before = CardsOf(p), !.kind = "Piles",
                        !.sets = [k \in 1..numSets |-> Len(piles) + k]]

(***************************************************************************)
(* Specifications                                                          *)
(***************************************************************************)
\* each Card operation, run once on the arguments drawn
NextCard ==
    \/ Lt
    \/ Gt
    \/ Eq
    \/ Parse
    \/ RoundTrip

SpecCard == InitCard /\ [][NextCard]_vars

\* the stack operations of a pile constructed from a short list
Init == InitPile

Next ==
    \/ \E p \in PileIds : Pop(p)
    \/ \E p \in PileIds, card \in PileCards : Remove(p, card)
    \/ \E p \in PileIds, card \in PileCards : AppendCard(p, card)

Spec == Init /\ [][Next]_vars

\* one deal from a pile just constructed, from a short list or as a deck
DealArgs == ((0..MaxSets) \X (0..MaxRounds)) \cup DeckDeals

NextDeal ==
    /\ call.op \in {"Pile", "Deck"}
    /\ \E d \in DealArgs : Deal(1, d[1], d[2])

InitDeal == InitPile \/ InitDeck

SpecDeal == InitDeal /\ [][NextDeal]_vars

\* a deck is constructed, then shuffled, sorted and dealt from
DeckIds == {p \in PileIds : p = 1}

NextDeck ==
    \/ piles = <<>> /\ NewDeck
    \/ \E p \in DeckIds : Shuffle(p)
    \/ \E p \in DeckIds : Sort(p)
    \/ \E p \in DeckIds, d \in DeckDeals : Deal(p, d[1], d[2])

SpecDeck == InitEmpty /\ [][NextDeck]_vars

\* a pile constructed from a short list is copied once, and the two piles
\* are changed in place
NextCopy ==
    \/ piles = <<1>> /\ Copy(1)
    \/ \E p \in PileIds : Pop(p)
    \/ \E p \in PileIds, card \in PileCards : Remove(p, card)
    \/ \E p \in PileIds, card \in PileCards : AppendCard(p, card)
    \/ \E p \in PileIds, card \in PileCards, position \in {NonePos, <<0>>} :
           Insert(p, card, position)
    \/ \E p \in PileIds : Shuffle(p)
    \/ \E p \in PileIds : Sort(p)
    \/ \E p \in PileIds : Reverse(p)

SpecCopy == InitPile /\ [][NextCopy]_vars

\* after A = Pile(as); B = Pile(bs), as and bs lists of the caller's
InitTwoPiles ==
    \E n, m \in 0..MaxLen : \E as \in ListsOfLen(n) : \E bs \in ListsOfLen(m) :
        /\ heap = <<as, bs>>
        /\ piles = <<1, 2>>
        /\ call = [NoCall EXCEPT !.op = "Pile", !.kind = "Pile", !.p = 2]

\* one operator applied to two piles just constructed, or to one of them
\* and itself
NextAlgebra ==
    \/ \E p, q \in PileIds : call.op = "Pile" /\ Sub(p, q)
    \/ \E p, q \in PileIds : call.op = "Pile" /\ And(p, q)
    \/ \E p, q \in PileIds : call.op = "Pile" /\ Xor(p, q)
    \/ \E p, q \in PileIds : call.op = "Pile" /\ Add(p, q)

SpecAlgebra == InitTwoPiles /\ [][NextAlgebra]_vars

\* peek and insert at every position, on a pile constructed from a short
\* list
NextIndex ==
    \/ \E p \in PileIds, position \in Positions : Peek(p, position)
    \/ \E p \in PileIds, card \in PileCards, position \in Positions :
           Insert(p, card, position)

SpecIndex == InitPile /\ [][NextIndex]_vars

\* a card is constructed, then its face and suit are assigned to, again and
\* again
NextAssign ==
    \/ \E value \in FaceSet : SetFace(value)
    \/ \E value \in SuitSet : SetSuit(value)

SpecAssign == InitAssign /\ [][NextAssign]_vars

\* piles and decks are constructed without arguments, on card_deck/assets.py
\* or on cards.py, while the first of them is appended to and dealt from
InitDefault == InitEmpty \/ InitCardsPy

NextDefault ==
    \/ ~InCardsPy /\ NewPile
    \/ ~InCardsPy /\ NewDeck
    \/ \E p \in DeckIds : ~InCardsPy /\ AppendCard(p, Card(ACE, HEARTS))
    \/ \E p \in DeckIds, d \in DefaultDeals :
           ~InCardsPy /\ Deal(p, d[1], d[2])
    \/ cards_NewPile
    \/ cards_NewDeck
    \/ \E p \in DeckIds : cards_Append(p, Card(ACE, HEARTS))
    \/ \E p \in DeckIds, d \in DefaultDeals : cards_Deal(p, d[1], d[2])

SpecDefault == InitDefault /\ [][NextDefault]_vars

(***************************************************************************)
(* Properties                                                              *)
(***************************************************************************)
\* the call op has been run
Done(op) == call.op = op /\ call.kind # "pending"

\* a is below b by rank: face first, then suit
LexLess(a, b) == a.face < b.face \/ (a.face = b.face /\ a.suit < b.suit)

\* C1: a < b returns whether a is below b by face rank, then suit rank, and
\* of a < b, a == b, a > b exactly one is true: a > b returns whether b is
\* below a, and a == b whether neither is below the other
C1_StrictTotalOrder ==
    /\ Done("lt") => call.exc = "none" /\ call.val = LexLess(call.a, call.b)
    /\ Done("gt") => call.exc = "none" /\ call.val = LexLess(call.b, call.a)
    /\ Done("eq") => call.val = (~LexLess(call.a, call.b)
                                    /\ ~LexLess(call.b, call.a))

\* C2: parsing the typeable name of any card returns a card equal to it
C2_RoundTrip ==
    Done("roundtrip") =>
        /\ call.exc = "none"
        /\ call.kind = "Card"
        /\ Card__eq__(call.card, call.a)

\* C3: parsing a string whose length is not 2 raises CardError
C3_WrongLengthRaises ==
    Done("parse") /\ Len(call.text) # 2 => call.exc = "CardError"

\* the face a character stands for (0: none)
C4_FaceOf(c) ==
    CASE c = "A" -> ACE
      [] c = "2" -> TWO
      [] c = "3" -> THREE
      [] c = "4" -> FOUR
      [] c = "5" -> FIVE
      [] c = "6" -> SIX
      [] c = "7" -> SEVEN
      [] c = "8" -> EIGHT
      [] c = "9" -> NINE
      [] c = "J" -> JACK
      [] c = "Q" -> QUEEN
      [] c = "K" -> KING
      [] OTHER   -> 0

\* the suit a letter stands for, in either case (0: none)
C4_SuitOf(c) ==
    CASE c \in {"D", "d"} -> DIAMONDS
      [] c \in {"C", "c"} -> CLUBS
      [] c \in {"H", "h"} -> HEARTS
      [] c \in {"S", "s"} -> SPADES
      [] OTHER            -> 0

C5_FreshDeck ==
    call.op = "Deck" /\ call.p \in PileIds =>
        /\ Len(CardsOf(call.p)) = 52
        /\ \A i, j \in 1..Len(CardsOf(call.p)) :
               Card__eq__(CardsOf(call.p)[i], CardsOf(call.p)[j]) => i = j
        /\ \A s \in 1..4, f \in 1..13 :
               CardsOf(call.p)[13 * (s - 1) + (f - 1) + 1] = Card(f, s)
        /\ \A s \in SuitSet, f \in FaceSet :
               ListCount(CardsOf(call.p), Card(f, s)) = 1

\* a deck has been constructed: it ends with the king of spades
C5_Witness ==
    /\ call.op = "Deck"
    /\ call.p \in PileIds
    /\ Len(CardsOf(call.p)) = 52
    /\ CardsOf(call.p)[52] = Card(KING, SPADES)

\* cs holds the cards of ds, each as often
IsPermutationOf(cs, ds) ==
    /\ Len(cs) = Len(ds)
    /\ \A i \in 1..Len(ds) : ListCount(cs, ds[i]) = ListCount(ds, ds[i])

\* C6: sorting a whole deck that was just shuffled succeeds and leaves the
\* order of a deck just constructed
C6_ShuffleSortRestores ==
    /\ call.op = "sort"
    /\ call.prev = "shuffle"
    /\ IsPermutationOf(call.before, Deck__init__)
    => /\ call.exc = "none"
       /\ CardsOf(call.p) = Deck__init__

\* C7: pop on a pile that holds cards returns the last and leaves the others
\* as they were; on an empty pile it raises PileError and the pile stays empty
C7_Pop ==
    call.op = "pop" =>
        IF call.before = <<>>
        THEN call.exc = "PileError" /\ CardsOf(call.p) = <<>>
        ELSE /\ call.exc = "none"
             /\ call.kind = "Card"
             /\ call.card = call.before[Len(call.before)]
             /\ Len(CardsOf(call.p)) = Len(call.before) - 1
             /\ \A i \in 1..Len(CardsOf(call.p)) :
                    CardsOf(call.p)[i] = call.before[i]

\* a card has been popped off a pile of two different cards
C7_Witness ==
    /\ call.op = "pop"
    /\ Len(call.before) >= 2
    /\ call.before[1] # call.before[Len(call.before)]
    /\ call.card = call.before[Len(call.before)]

\* C8: remove(card) deletes the first card equal to card and keeps the others
\* in order; when there is none it raises PileError and changes nothing
C8_Remove ==
    call.op = "remove" =>
        IF \E i \in 1..Len(call.before) : call.before[i] = call.a
        THEN /\ call.exc = "none"
             /\ Len(CardsOf(call.p)) = Len(call.before) - 1
             /\ \E i \in 1..Len(call.before) :
                    /\ call.before[i] = call.a
                    /\ \A h \in 1..(i - 1) :
                           /\ call.before[h] # call.a
                           /\ CardsOf(call.p)[h] = call.before[h]
                    /\ \A h \in i..Len(CardsOf(call.p)) :
                           CardsOf(call.p)[h] = call.before[h + 1]
        ELSE call.exc = "PileError" /\ CardsOf(call.p) = call.before

\* a card held twice, with another between, has been removed once
C8_Witness ==
    /\ call.op = "remove"
    /\ Len(call.before) = 3
    /\ call.before[1] = call.a
    /\ call.before[3] = call.a
    /\ call.before[2] # call.a
    /\ CardsOf(call.p) = <<call.before[2], call.a>>

\* how often the first k piles the last deal returned hold the card c
RECURSIVE DealtCount(_, _)
DealtCount(k, c) ==
    IF k = 0 THEN 0
    ELSE ListCount(CardsOf(call.sets[k]), c) + DealtCount(k - 1, c)

\* how many cards the first k piles the last deal returned hold
RECURSIVE DealtSize(_)
DealtSize(k) ==
    IF k = 0 THEN 0 ELSE Len(CardsOf(call.sets[k])) + DealtSize(k - 1)

\* C9: deal(n, m) from a pile of at least n*m cards returns n piles of m
\* cards, takes the top n*m cards off the source, gives the k-th card popped
\* (from 0, top first) to pile k mod n as its next card, and the piles and the
\* source together hold each card as often as the source did
C9_Deal ==
    call.op = "deal" /\ Len(call.before) >= call.n * call.m =>
        /\ call.exc = "none"
        /\ Len(call.sets) = call.n
        /\ \A j \in 1..Len(call.sets) : Len(CardsOf(call.sets[j])) = call.m
        /\ CardsOf(call.p)
               = SubSeq(call.before, 1, Len(call.before) - call.n * call.m)
        /\ \A k \in 0..(call.n * call.m - 1) :
               CardsOf(call.sets[(k % call.n) + 1])[(k \div call.n) + 1]
                   = call.before[Len(call.before) - k]
        /\ \A i \in 1..Len(call.before) :
               ListCount(call.before, call.before[i])
                   = ListCount(CardsOf(call.p), call.before[i])
                       + DealtCount(Len(call.sets), call.before[i])

\* a deck has been dealt into 3 piles of 5, and 37 cards are left
C9_Witness ==
    /\ call.op = "deal"
    /\ call.n = 3
    /\ call.m = 5
    /\ Len(call.before) = 52
    /\ Len(call.sets) = 3
    /\ DealtSize(3) = 15
    /\ Len(CardsOf(call.p)) = 37

\* C10: deal(n, m) from a pile of fewer than n*m cards does not raise: it
\* returns n piles that together hold as many cards as the source did, and
\* the source is left empty
C10_DealShort ==
    call.op = "deal" /\ Len(call.before) < call.n * call.m =>
        /\ call.exc = "none"
        /\ Len(call.sets) = call.n
        /\ DealtSize(Len(call.sets)) = Len(call.before)
        /\ CardsOf(call.p) = <<>>

\* the methods that change the list of a pile in place
C11_Mutators ==
    {"pop", "append", "insert", "remove", "shuffle", "sort", "reverse"}

\* C11: copy returns a pile that holds the cards of the original in the same
\* order, and no change made in place to a pile (pop, append, insert,
\* remove, shuffle, sort, reverse) changes the cards of a pile it was copied
\* from or of a copy of it
C11_CopyIndependent ==
    [][/\ call'.op = "copy" =>
              heap'[piles'[call'.sets[1]]] = heap'[piles'[call'.p]]
       /\ call'.op \in C11_Mutators =>
              \A q \in PileIds \ {call'.p} : heap'[piles'[q]] = CardsOf(q)]_vars

\* the card c occurs in the list cs
C12_Occurs(cs, c) == \E i \in 1..Len(cs) : cs[i] = c

\* the cards of as, in order, that occur in bs (inB) or do not (~inB)
RECURSIVE C12_Kept(_, _, _)
C12_Kept(as, bs, inB) ==
    IF as = <<>> THEN <<>>
    ELSE IF C12_Occurs(bs, Head(as)) = inB
         THEN <<Head(as)>> \o C12_Kept(Tail(as), bs, inB)
         ELSE C12_Kept(Tail(as), bs, inB)

C13_Holds(cs, c) == \E i \in 1..Len(cs) : cs[i] = c

\* C13: A ^ B returns a pile that holds every card held by exactly one of A
\* and B, those held by B alone among them, and no card held by both
C13_Xor ==
    call.op = "xor" =>
        \A c \in Cards :
            C13_Holds(CardsOf(call.sets[1]), c)
                <=> (C13_Holds(call.before, c) # C13_Holds(CardsOf(call.n), c))

\* C18: A + B returns a pile of the cards of A followed by the cards of B,
\* len(A) + len(B) cards in all, and A and B are left as they were
C18_Add ==
    [][call'.op = "add" =>
          /\ heap'[piles'[call'.sets[1]]]
                 = CardsOf(call'.p) \o CardsOf(call'.n)
          /\ Len(heap'[piles'[call'.sets[1]]])
                 = Len(CardsOf(call'.p)) + Len(CardsOf(call'.n))
          /\ heap'[piles'[call'.p]] = CardsOf(call'.p)
          /\ heap'[piles'[call'.n]] = CardsOf(call'.n)]_vars

\* C14: peek on an empty pile raises PileError; peek on a pile of n > 0
\* cards at a position outside -n .. n-1 raises IndexError; either way the
\* pile is left as it was
C14_PeekFails ==
    call.op = "peek" =>
        /\ call.before = <<>> =>
               call.exc = "PileError" /\ CardsOf(call.p) = <<>>
        /\ /\ call.before # <<>>
           /\ call.m = 1
           /\ (call.n < 0 - Len(call.before) \/ call.n >= Len(call.before))
           => call.exc = "IndexError" /\ CardsOf(call.p) = call.before

\* C15: insert(card, position) with 0 <= position <= len puts the card at
\* that index and moves the cards from there on up by one; without a
\* position the card goes on top, where peek finds it; with a position
\* outside 0 .. len it raises IndexError and leaves the pile as it was
C15_Insert ==
    call.op = "insert" =>
        LET at == IF call.m = 0 THEN Len(call.before) ELSE call.n
        IN  IF 0 <= at /\ at <= Len(call.before)
            THEN /\ call.exc = "none"
                 /\ Len(CardsOf(call.p)) = Len(call.before) + 1
                 /\ CardsOf(call.p)[at + 1] = call.a
                 /\ \A i \in 1..at : CardsOf(call.p)[i] = call.before[i]
                 /\ \A i \in (at + 1)..Len(call.before) :
                        CardsOf(call.p)[i + 1] = call.before[i]
                 /\ call.m = 0 =>
                        CardsOf(call.p)[Len(CardsOf(call.p))] = call.a
            ELSE /\ call.exc = "IndexError"
                 /\ CardsOf(call.p) = call.before

\* C16: every assignment to card.face or card.suit raises CardError, and
\* card.face and card.suit go on returning the face and suit the card was
\* constructed with
C16_Immutable ==
    /\ call.op \in {"set_face", "set_suit"} => call.exc = "CardError"
    /\ call.op \in {"Card", "set_face", "set_suit"} =>
           /\ Card_face(call.card) = call.a.face
           /\ Card_suit(call.card) = call.a.suit

\* the six of hearts has been assigned the face seven, in vain
C16_Witness ==
    /\ call.op = "set_face"
    /\ call.n = SEVEN
    /\ call.a = Card(SIX, HEARTS)
    /\ call.exc = "CardError"
    /\ Card_face(call.card) = SIX

\* C17: on either revision, a pile constructed without arguments is empty
\* and its list is the list of no other pile, however many piles and decks
\* came before; every deck just constructed has 52 cards; the piles one deal
\* returns have each a list of their own
C17_FreshList ==
    /\ call.op \in {"Pile()", "cards.Pile"} => CardsOf(call.p) = <<>>
    /\ \A p, q \in PileIds : p # q => piles[p] # piles[q]
    /\ call.op \in {"Deck", "cards.Deck"} => Len(CardsOf(call.p)) = 52
    /\ call.op \in {"deal", "cards.deal"} =>
           \A j, k \in 1..Len(call.sets) :
               j # k => piles[call.sets[j]] # piles[call.sets[k]]

====
